---- MODULE Spec2Model ----
(***************************************************************************)
(* Model of modules_vae/fit.py: fit(model, trainloader, validloader,       *)
(* params), the joint training / validation loop of the multi-modal VAE    *)
(* with its Cox survival sub-task, as called from modules_vae/main.py.     *)
(*                                                                         *)
(* The network, the loss functions and the concordance index are external  *)
(* collaborators: every forward pass yields loss values chosen             *)
(* nondeterministically from a small set (or a NaN, which trips the        *)
(* asserts of the loop), and the metric is chosen from MetricValues.       *)
(* Losses are floats in the program; they are integers here.  A data       *)
(* loader is represented by the number of batches it yields per pass.      *)
(* The parameters of the network are represented by the number of          *)
(* optimizer updates applied to them.                                      *)
(***************************************************************************)
EXTENDS Integers, Sequences, FiniteSets, TLC

\* ---------------------------------------------------------------- bounds
MaxEpochs == 2
MaxBatches == 2
MaxTypes == 2

\* the forward passes the model distinguishes: each yields other loss values
LossLevels == {1, 2}
\* values the concordance index can take
MetricValues == {0, 1}
\* names of the VAE input modalities; input_types_vae is a prefix of it
TypeNames == <<"exp", "cna", "gistic", "fish", "sbs", "ig">>

VARIABLES
    pc,                 \* position of fit
    epochs,             \* params.epochs
    trainloader,        \* number of batches of trainloader
    validloader,        \* number of batches of validloader
    input_types_vae,    \* model.input_types_vae
    training,           \* model.training (train() / eval() mode)
    weights,            \* model parameters: number of updates applied
    grad,               \* accumulated .grad of the parameters
    opt_steps,          \* optimizer state: number of optimizer.step() calls
    backward_calls,     \* number of backward passes
    backward_on,        \* the loss the last backward pass was run on
    epoch,              \* loop variable of the epoch loop (-1: not yet bound)
    batch_idx,          \* batches consumed by the running step's loop
    batch_kl_loss, batch_survival_loss, batch_reconstruction_losses, batch_loss,
    train_kl_loss, train_survival_loss, train_reconstruction_losses,
    valid_kl_loss, valid_survival_loss, valid_reconstruction_losses,
    estimate,           \* number of risk predictions collected by valid_step
    results,            \* the results dictionary
    json_file,          \* content of {resultsprefix}.json
    retval              \* what fit returned

vars == <<pc, epochs, trainloader, validloader, input_types_vae, training,
          weights, grad, opt_steps, backward_calls, backward_on, epoch,
          batch_idx, batch_kl_loss, batch_survival_loss,
          batch_reconstruction_losses, batch_loss,
          train_kl_loss, train_survival_loss, train_reconstruction_losses,
          valid_kl_loss, valid_survival_loss, valid_reconstruction_losses,
          estimate, results, json_file, retval>>

modelVars == <<training, weights, grad, opt_steps, backward_calls, backward_on>>
configVars == <<epochs, trainloader, validloader, input_types_vae>>
batchVars == <<batch_kl_loss, batch_survival_loss,
               batch_reconstruction_losses, batch_loss>>
trainAcc == <<train_kl_loss, train_survival_loss, train_reconstruction_losses>>
validAcc == <<valid_kl_loss, valid_survival_loss, valid_reconstruction_losses>>

\* ---------------------------------------------------------------- helpers
None == [type |-> "NoneType"]
EmptyDict == [k \in {} |-> 0]

RECURSIVE SumSeq(_)
\* Python's sum(list)
SumSeq(s) == IF s = <<>> THEN 0 ELSE Head(s) + SumSeq(Tail(s))

\* [0 for _ in range(len(model.input_types_vae))]
Zeros == [i \in 1..Len(input_types_vae) |-> 0]

\* [i + j.data.item() for i, j in zip(acc, batch)]
ZipAdd(acc, batch) ==
    [i \in 1..(IF Len(acc) < Len(batch) THEN Len(acc) ELSE Len(batch)) |->
        acc[i] + batch[i]]

\* {input_type: loss for input_type, loss in zip(model.input_types_vae, losses)}
ZipDict(types, losses) ==
    LET n == IF Len(types) < Len(losses) THEN Len(types) ELSE Len(losses)
    IN  [t \in {types[i] : i \in 1..n} |->
            losses[CHOOSE i \in 1..n :
                      /\ types[i] = t
                      /\ \A j \in 1..n : types[j] = t => j <= i]]

\* what one forward pass and the loss functions can yield for one batch: the
\* terms of one outcome differ from each other, and from one outcome to the next
BatchOutcomes ==
    {[kl |-> c, surv |-> 2 * c,
      recon |-> [i \in 1..Len(input_types_vae) |-> (2 + i) * c]] :
        c \in LossLevels}

\* ---------------------------------------------------------------- Init
Init ==
    /\ pc = "for_epoch"
    /\ epochs \in 0..MaxEpochs
    /\ trainloader \in 0..MaxBatches
    /\ validloader \in 0..MaxBatches
    /\ input_types_vae \in {SubSeq(TypeNames, 1, n) : n \in 1..MaxTypes}
    /\ training = TRUE
    /\ weights = 0
    /\ grad = 0
    /\ opt_steps = 0
    /\ backward_calls = 0
    /\ backward_on = 0
    /\ epoch = -1
    /\ batch_idx = 0
    /\ batch_kl_loss = 0
    /\ batch_survival_loss = 0
    /\ batch_reconstruction_losses = <<>>
    /\ batch_loss = 0
    /\ train_kl_loss = 0
    /\ train_survival_loss = 0
    /\ train_reconstruction_losses = <<>>
    /\ valid_kl_loss = 0
    /\ valid_survival_loss = 0
    /\ valid_reconstruction_losses = <<>>
    /\ estimate = 0
    /\ results = [params |-> [epochs |-> epochs], history |-> EmptyDict]
    /\ json_file = None
    /\ retval = None

\* ---------------------------------------------------------------- modes
\* model.train()
TrainMode == TRUE
\* mutant: valid_step forgets model.eval() and leaves the mode as it is
EvalMode_Skipped == training

\* model.eval()
EvalMode == FALSE

\* ---------------------------------------------------------------- losses
\* mutant: the survival term is left out of the joint objective
JointLoss_NoSurvival(kl, surv, recon) == kl + SumSeq(recon)

\* batch_kl_loss + batch_survival_loss + sum(batch_reconstruction_losses)
JointLoss(kl, surv, recon) == kl + surv + SumSeq(recon)

\* mutant: the accumulator is assigned, not increased
Accumulate_Overwrite(acc, x) == x

\* acc += batch.data.item()
Accumulate(acc, x) == acc + x

\* the entry train_step writes for its epoch
TrainEntry(kl, recon, surv) ==
    ("kl_loss" :> kl) @@
    ("reconstruction_loss" :> ZipDict(input_types_vae, recon)) @@
    ("survival_loss" :> surv)

\* the entry valid_step writes for its epoch
ValidEntry(kl, recon, surv, metric) ==
    ("kl_loss" :> kl) @@
    ("reconstruction_loss" :> ZipDict(input_types_vae, recon)) @@
    ("survival_loss" :> surv) @@
    ("metric" :> metric)

\* mutant: every epoch logs into the entry of epoch 0
Log_FirstEpoch(e, phase, entry) ==
    [results EXCEPT !.history[0][phase] = entry]

\* results['history'][e][phase][k] = v for every k of entry; an assignment
\* overwrites a key already present and keeps the other keys
Log(e, phase, entry) ==
    LET old == results.history[e][phase]
        new == [k \in DOMAIN old \cup DOMAIN entry |->
                   IF k \in DOMAIN entry THEN entry[k] ELSE old[k]]
    IN  [results EXCEPT !.history[e][phase] = new]

\* json.dump writes the integer epoch keys of a dictionary as strings
EpochKey(e) == <<"0", "1", "2", "3", "4", "5">>[e + 1]

Dump(r) ==
    [params |-> r.params,
     history |-> [k \in {EpochKey(e) : e \in DOMAIN r.history} |->
                    r.history[CHOOSE e \in DOMAIN r.history : EpochKey(e) = k]]]

\* ---------------------------------------------------------------- epoch loop
\* for epoch in range(params.epochs): next iteration
ForEpoch ==
    /\ pc = "for_epoch"
    /\ epoch + 1 < epochs
    /\ epoch' = epoch + 1
    /\ results' = IF epoch' \notin DOMAIN results.history
                  THEN [results EXCEPT !.history =
                           (epoch' :> [train |-> EmptyDict, valid |-> EmptyDict])
                           @@ results.history]
                  ELSE results
    /\ pc' = "train_step"
    /\ UNCHANGED <<configVars, modelVars, batch_idx, batchVars, trainAcc,
                   validAcc, estimate, json_file, retval>>

\* for epoch in range(params.epochs): range exhausted
ForEpochEnd ==
    /\ pc = "for_epoch"
    /\ ~(epoch + 1 < epochs)
    /\ pc' = "save"
    /\ UNCHANGED <<configVars, modelVars, epoch, batch_idx, batchVars, trainAcc,
                   validAcc, estimate, results, json_file, retval>>

\* ---------------------------------------------------------------- train_step
TrainStepBegin ==
    /\ pc = "train_step"
    /\ training' = TrainMode
    /\ grad' = 0
    /\ train_reconstruction_losses' = Zeros
    /\ train_kl_loss' = 0
    /\ train_survival_loss' = 0
    /\ batch_idx' = 0
    /\ batch_kl_loss' = 0
    /\ batch_survival_loss' = 0
    /\ batch_reconstruction_losses' = <<>>
    /\ batch_loss' = 0
    /\ pc' = "train_loop"
    /\ UNCHANGED <<configVars, weights, opt_steps, backward_calls, backward_on,
                   epoch, validAcc, estimate, results, json_file, retval>>

\* batch_loss.backward(); optimizer.step()
Backprop(loss) ==
    /\ backward_calls' = backward_calls + 1
    /\ backward_on' = loss
    /\ grad' = grad + loss
    /\ opt_steps' = opt_steps + 1
    /\ weights' = weights + 1

\* one iteration of the loop over trainloader
TrainBatch ==
    /\ pc = "train_loop"
    /\ batch_idx < trainloader
    /\ \E o \in BatchOutcomes :
        /\ batch_kl_loss' = o.kl
        /\ batch_reconstruction_losses' = o.recon
        /\ batch_survival_loss' = o.surv
        /\ batch_loss' = JointLoss(o.kl, o.surv, o.recon)
        /\ Backprop(batch_loss')
        /\ train_kl_loss' = Accumulate(train_kl_loss, o.kl)
        /\ train_reconstruction_losses' =
               ZipAdd(train_reconstruction_losses, o.recon)
        /\ train_survival_loss' = Accumulate(train_survival_loss, o.surv)
    /\ batch_idx' = batch_idx + 1
    /\ UNCHANGED <<pc, configVars, training, epoch, validAcc, estimate,
                   results, json_file, retval>>

\* one of the asserts of the loop body fails (a NaN loss, or the network
\* returns another number of outputs than inputs): AssertionError
TrainBatchAssertionError ==
    /\ pc = "train_loop"
    /\ batch_idx < trainloader
    /\ pc' = "raised"
    /\ UNCHANGED <<configVars, modelVars, epoch, batch_idx, batchVars, trainAcc,
                   validAcc, estimate, results, json_file, retval>>

\* the loop is over: log the losses of the epoch
TrainStepLog ==
    /\ pc = "train_loop"
    /\ ~(batch_idx < trainloader)
    /\ results' = Log(epoch, "train",
                      TrainEntry(train_kl_loss, train_reconstruction_losses,
                                 train_survival_loss))
    /\ pc' = "valid_step"
    /\ UNCHANGED <<configVars, modelVars, epoch, batch_idx, batchVars, trainAcc,
                   validAcc, estimate, json_file, retval>>

\* ---------------------------------------------------------------- valid_step
ValidStepBegin ==
    /\ pc = "valid_step"
    /\ training' = EvalMode
    /\ estimate' = 0
    /\ valid_reconstruction_losses' = Zeros
    /\ valid_kl_loss' = 0
    /\ valid_survival_loss' = 0
    /\ batch_idx' = 0
    /\ batch_kl_loss' = 0
    /\ batch_survival_loss' = 0
    /\ batch_reconstruction_losses' = <<>>
    /\ batch_loss' = 0
    /\ pc' = "valid_loop"
    /\ UNCHANGED <<configVars, weights, grad, opt_steps, backward_calls,
                   backward_on, epoch, trainAcc, results, json_file, retval>>

\* mutant: the validation loop backpropagates its losses like the training loop
NoGrad_Backprop ==
    Backprop(JointLoss(batch_kl_loss', batch_survival_loss',
                       batch_reconstruction_losses'))

\* the body of the validation loop runs under torch.no_grad() and calls
\* neither backward() nor optimizer.step()
NoGrad ==
    UNCHANGED <<weights, grad, opt_steps, backward_calls, backward_on>>

\* one iteration of the loop over validloader
ValidBatch ==
    /\ pc = "valid_loop"
    /\ batch_idx < validloader
    /\ estimate' = estimate + 1
    /\ \E o \in BatchOutcomes :
        /\ batch_kl_loss' = o.kl
        /\ batch_reconstruction_losses' = o.recon
        /\ batch_survival_loss' = o.surv
        /\ valid_kl_loss' = Accumulate(valid_kl_loss, o.kl)
        /\ valid_reconstruction_losses' =
               ZipAdd(valid_reconstruction_losses, o.recon)
        /\ valid_survival_loss' = Accumulate(valid_survival_loss, o.surv)
    /\ NoGrad
    /\ batch_idx' = batch_idx + 1
    /\ UNCHANGED <<pc, configVars, training, epoch, batch_loss, trainAcc,
                   results, json_file, retval>>

ValidBatchAssertionError ==
    /\ pc = "valid_loop"
    /\ batch_idx < validloader
    /\ pc' = "raised"
    /\ UNCHANGED <<configVars, modelVars, epoch, batch_idx, batchVars, trainAcc,
                   validAcc, estimate, results, json_file, retval>>

\* the loop is over: concatenate, compute the metric, log
ValidStepLog ==
    /\ pc = "valid_loop"
    /\ ~(batch_idx < validloader)
    /\ estimate > 0
    /\ \E valid_metric \in MetricValues :
        results' = Log(epoch, "valid",
                       ValidEntry(valid_kl_loss, valid_reconstruction_losses,
                                  valid_survival_loss, valid_metric))
    /\ pc' = "for_epoch"
    /\ UNCHANGED <<configVars, modelVars, epoch, batch_idx, batchVars, trainAcc,
                   validAcc, estimate, json_file, retval>>

\* torch.cat of an empty list raises: the validation loader had no batch
ValidStepCatError ==
    /\ pc = "valid_loop"
    /\ ~(batch_idx < validloader)
    /\ estimate = 0
    /\ pc' = "raised"
    /\ UNCHANGED <<configVars, modelVars, epoch, batch_idx, batchVars, trainAcc,
                   validAcc, estimate, results, json_file, retval>>

\* ---------------------------------------------------------------- the end
\* json.dump(results, f)
Save ==
    /\ pc = "save"
    /\ json_file' = Dump(results)
    /\ pc' = "return"
    /\ UNCHANGED <<configVars, modelVars, epoch, batch_idx, batchVars, trainAcc,
                   validAcc, estimate, results, retval>>

\* the value of the return statement
ReturnValue == None

\* return
Return ==
    /\ pc = "return"
    /\ retval' = ReturnValue
    /\ pc' = "done"
    /\ UNCHANGED <<configVars, modelVars, epoch, batch_idx, batchVars, trainAcc,
                   validAcc, estimate, results, json_file>>

Next ==
    \/ ForEpoch
    \/ ForEpochEnd
    \/ TrainStepBegin
    \/ TrainBatch
    \/ TrainBatchAssertionError
    \/ TrainStepLog
    \/ ValidStepBegin
    \/ ValidBatch
    \/ ValidBatchAssertionError
    \/ ValidStepLog
    \/ ValidStepCatError
    \/ Save
    \/ Return

Spec == Init /\ [][Next]_vars

TypeOK ==
    /\ pc \in {"for_epoch", "train_step", "train_loop", "valid_step",
               "valid_loop", "save", "return", "done", "raised"}
    /\ epoch \in -1..MaxEpochs
    /\ batch_idx \in 0..MaxBatches
    /\ training \in BOOLEAN
    /\ weights = opt_steps

\* ================================================================ claims

\* C1: whenever fit completes normally, its return value is the results
\* dictionary it built (the training and validation history).
C1_ReturnsResults == pc = "done" => retval = results

TrainKeys == {"kl_loss", "reconstruction_loss", "survival_loss"}
ValidKeys == {"kl_loss", "reconstruction_loss", "survival_loss", "metric"}

\* the history once fit has completed with a non-empty validation loader: the
\* keys 0..N-1, each with exactly the train and the valid keys
C2_Shape ==
    (pc = "done" /\ validloader > 0) =>
        /\ DOMAIN results.history = 0..(epochs - 1)
        /\ \A e \in DOMAIN results.history :
            /\ DOMAIN results.history[e] = {"train", "valid"}
            /\ DOMAIN results.history[e].train = TrainKeys
            /\ DOMAIN results.history[e].valid = ValidKeys

\* no step changes the entry of an epoch earlier than the one it runs in
C2_Frozen ==
    \A e \in DOMAIN results.history :
        e < epoch' => /\ e \in DOMAIN results'.history
                      /\ results'.history[e] = results.history[e]

\* C2: when fit completes normally with params.epochs = N and a non-empty
\* validation loader, results['history'] has exactly the keys 0..N-1, every
\* history[e]['train'] holds exactly kl_loss, reconstruction_loss and
\* survival_loss, every history[e]['valid'] holds exactly those and metric,
\* and the entry of an earlier epoch is never changed by a later epoch.
C2_HistoryRecorded == []C2_Shape /\ [][C2_Frozen]_vars

C2_Witness ==
    /\ pc = "done"
    /\ validloader > 0
    /\ epochs >= 2
    /\ results.history[0].valid.metric # results.history[1].valid.metric

\* a step that is one iteration of the loop over trainloader
IsTrainBatch == pc = "train_loop" /\ batch_idx' = batch_idx + 1
\* a step that is one iteration of the loop over validloader
IsValidBatch == pc = "valid_loop" /\ batch_idx' = batch_idx + 1

C3_Step ==
    IF IsTrainBatch
    THEN /\ batch_loss' = batch_kl_loss' + batch_survival_loss'
                          + SumSeq(batch_reconstruction_losses')
         /\ Len(batch_reconstruction_losses') = Len(input_types_vae)
         /\ backward_calls' = backward_calls + 1
         /\ backward_on' = batch_loss'
         /\ opt_steps' = opt_steps + 1
    ELSE /\ backward_calls' = backward_calls
         /\ opt_steps' = opt_steps

\* C3: for every training batch the batch loss is the unweighted sum of the KL
\* loss, the survival loss and the reconstruction losses of all VAE input
\* types, and exactly one backward pass and one optimizer step are performed,
\* on that joint loss; no other step of fit performs either.
C3_JointObjective == [][C3_Step]_vars

C3_Witness ==
    /\ pc = "train_loop"
    /\ epoch >= 1
    /\ batch_idx >= 2
    /\ Len(input_types_vae) >= 2
    /\ backward_calls >= 4
    /\ backward_on = batch_loss
    /\ batch_loss > batch_kl_loss + batch_survival_loss

C4_Step ==
    /\ pc \in {"valid_step", "valid_loop"} =>
            /\ weights' = weights
            /\ opt_steps' = opt_steps
            /\ backward_calls' = backward_calls
            /\ grad' = grad
    /\ weights' # weights => IsTrainBatch

\* C4: during any valid_step no backward pass and no optimizer step occurs:
\* the model parameters and the optimizer state at its end equal those at its
\* start; the parameters change only inside train_step.
C4_ValidationNoBackprop == [][C4_Step]_vars

C4_Witness ==
    /\ pc = "for_epoch"
    /\ epoch >= 0
    /\ validloader >= 2
    /\ weights >= 2
    /\ "metric" \in DOMAIN results.history[epoch].valid

TrainLogged(e) == DOMAIN results.history[e].train = TrainKeys
ValidLogged(e) == DOMAIN results.history[e].valid = ValidKeys

C5_Order ==
    /\ pc = "train_loop" => training
    /\ pc = "valid_loop" => ~training
    /\ (pc = "done" /\ epochs >= 1) => ~training
    /\ pc \in {"train_step", "train_loop"} =>
            /\ ~TrainLogged(epoch) /\ ~ValidLogged(epoch)
            /\ \A e \in 0..(epoch - 1) : TrainLogged(e) /\ ValidLogged(e)
    /\ pc \in {"valid_step", "valid_loop"} =>
            /\ TrainLogged(epoch) /\ ~ValidLogged(epoch)
            /\ \A e \in 0..(epoch - 1) : TrainLogged(e) /\ ValidLogged(e)
    /\ pc \in {"save", "return", "done"} =>
            /\ epoch = epochs - 1
            /\ \A e \in 0..(epochs - 1) : TrainLogged(e) /\ ValidLogged(e)

C5_Step ==
    /\ epoch' # epoch => (epoch' = epoch + 1 /\ pc' = "train_step")
    /\ pc' = "valid_step" => pc = "train_loop"
    /\ pc' = "train_step" => pc = "for_epoch"

\* C5: fit runs the epochs in increasing order, train_step and then valid_step
\* for each: valid_step(e) starts only after train_step(e) has finished,
\* train_step(e+1) only after valid_step(e); the model is in training mode
\* during every training batch and in evaluation mode during every validation
\* batch, and after fit completes with at least one epoch it is in evaluation
\* mode.
C5_EpochOrder == []C5_Order /\ [][C5_Step]_vars

C5_Witness ==
    /\ pc = "done"
    /\ epochs >= 2
    /\ trainloader >= 1
    /\ ~training
    /\ weights = epochs * trainloader

IsSeqOfTypes(acc) == DOMAIN acc = 1..Len(input_types_vae)

\* what a step logs for the accumulators kl, recon, surv
LoggedAs(entry, kl, recon, surv) ==
    /\ entry.kl_loss = kl
    /\ entry.survival_loss = surv
    /\ DOMAIN entry.reconstruction_loss =
           {input_types_vae[i] : i \in 1..Len(input_types_vae)}
    /\ \A i \in 1..Len(input_types_vae) :
           entry.reconstruction_loss[input_types_vae[i]] = recon[i]

C6_Step ==
    /\ (pc = "train_step" /\ pc' = "train_loop") =>
            /\ train_kl_loss' = 0 /\ train_survival_loss' = 0
            /\ IsSeqOfTypes(train_reconstruction_losses')
            /\ \A i \in DOMAIN train_reconstruction_losses' :
                   train_reconstruction_losses'[i] = 0
    /\ (pc = "valid_step" /\ pc' = "valid_loop") =>
            /\ valid_kl_loss' = 0 /\ valid_survival_loss' = 0
            /\ IsSeqOfTypes(valid_reconstruction_losses')
            /\ \A i \in DOMAIN valid_reconstruction_losses' :
                   valid_reconstruction_losses'[i] = 0
    /\ IsTrainBatch =>
            /\ train_kl_loss' = train_kl_loss + batch_kl_loss'
            /\ train_survival_loss' = train_survival_loss + batch_survival_loss'
            /\ IsSeqOfTypes(train_reconstruction_losses')
            /\ \A i \in DOMAIN train_reconstruction_losses' :
                   train_reconstruction_losses'[i] =
                       train_reconstruction_losses[i]
                       + batch_reconstruction_losses'[i]
    /\ IsValidBatch =>
            /\ valid_kl_loss' = valid_kl_loss + batch_kl_loss'
            /\ valid_survival_loss' = valid_survival_loss + batch_survival_loss'
            /\ IsSeqOfTypes(valid_reconstruction_losses')
            /\ \A i \in DOMAIN valid_reconstruction_losses' :
                   valid_reconstruction_losses'[i] =
                       valid_reconstruction_losses[i]
                       + batch_reconstruction_losses'[i]
    /\ (pc = "train_loop" /\ ~IsTrainBatch) => UNCHANGED trainAcc
    /\ (pc = "valid_loop" /\ ~IsValidBatch) => UNCHANGED validAcc
    /\ (pc = "train_loop" /\ pc' = "valid_step") =>
            LoggedAs(results'.history[epoch].train, train_kl_loss,
                     train_reconstruction_losses, train_survival_loss)
    /\ (pc = "valid_loop" /\ pc' = "for_epoch") =>
            LoggedAs(results'.history[epoch].valid, valid_kl_loss,
                     valid_reconstruction_losses, valid_survival_loss)
    /\ results' # results =>
            \/ pc = "for_epoch"
            \/ pc = "train_loop" /\ pc' = "valid_step"
            \/ pc = "valid_loop" /\ pc' = "for_epoch"

\* with an empty training loader every logged training loss is 0
C6_EmptyLoader ==
    \A e \in DOMAIN results.history :
        (trainloader = 0 /\ TrainLogged(e)) =>
            LoggedAs(results.history[e].train, 0, Zeros, 0)

\* C6: each loss logged for an epoch is the sum over the epoch's batches of
\* the per-batch value: the accumulators for KL, survival and each
\* reconstruction loss are reset to 0 at the start of every train_step and
\* valid_step, increased by exactly one batch value per batch, and logged
\* once at the end of the step; with an empty training loader the logged
\* training losses are all 0, and reconstruction_loss has one value per VAE
\* input type.
C6_LossesAreSums == []C6_EmptyLoader /\ [][C6_Step]_vars

C6_Witness ==
    /\ pc = "valid_step"
    /\ trainloader >= 2
    /\ Len(input_types_vae) >= 2
    /\ results.history[epoch].train.kl_loss = 3
    /\ results.history[epoch].train.reconstruction_loss["cna"] = 12

====
